---- MODULE Spec2Model ----
(***************************************************************************)
(* A model of the acahelper application: the API service of                *)
(* server/routes.ts over the storage layer (DatabaseStorage) and the       *)
(* relational schema of shared/schema.ts and the migration, and the tool   *)
(* screens of the client with their word counting.                         *)
(*                                                                         *)
(* JSON values are tagged records: Str(s) a string, Num(n) a number,       *)
(* Undefined an absent property, Null the JSON null.  A number is held in  *)
(* fixed point, in units of 1/Scale, so that 0.7 is Num(7) and the integer *)
(* 40 is JsInt(40), that is Num(400).  A text is a sequence of characters. *)
(***************************************************************************)
EXTENDS Integers, Sequences, FiniteSets, TLC

VARIABLES
    users,          \* the rows of table users
    nextUserId,     \* the serial sequence of users.id
    contents,       \* the rows of table contents
    nextContentId,  \* the serial sequence of contents.id
    providerCalls,  \* the number of calls made to transformContent
    uploads,        \* the files multer has written to the uploads directory
    nextUuid,       \* the uuid the next upload draws
    last,           \* the request handled last and the response it got
    inputText,      \* the text a tool screen hands to WordCounter
    wordCount,      \* WordCounter's wordCount state
    effectPending,  \* WordCounter's effect has not yet run for inputText
    activeTool,     \* the tool the dashboard shows
    outputText,     \* the shown tool's outputText state
    title,          \* the shown tool's title state
    inFlight,       \* the transform requests sent and not yet settled
    aiParameters,   \* the Expand tool's aiParameters state
    localParameters,    \* AIParametersDialog's localParameters state
    open,               \* AIParametersDialog's open state
    generatedFrom,  \* history: the text of the request outputText answers
    cleared,        \* history: Clear was pressed, and no transform started since
    selectedContent,    \* the row the history page has selected, or Null
    isDeleteDialogOpen, \* the history page shows its delete confirmation
    toast               \* the toast the history page shows, or Null

vars == <<users, nextUserId, contents, nextContentId, providerCalls, uploads,
          nextUuid, last, inputText, wordCount, effectPending,
          activeTool, outputText, title, inFlight, aiParameters,
          localParameters, open, generatedFrom, cleared,
          selectedContent, isDeleteDialogOpen, toast>>

serverVars == <<users, nextUserId, contents, nextContentId, providerCalls,
                uploads, nextUuid, last>>

dialogVars == <<aiParameters, localParameters, open>>

screenVars == <<activeTool, outputText, title, inFlight, dialogVars,
                generatedFrom, cleared>>

toolVars == <<inputText, wordCount, effectPending, screenVars>>

historyVars == <<selectedContent, isDeleteDialogOpen, toast>>

clientVars == <<toolVars, historyVars>>

----------------------------------------------------------------------------
(* Bounds *)

MaxLen == 4         \* the longest text typed into a tool screen
MaxUsers == 2       \* user rows registered
MaxContents == 2    \* content rows saved
MaxCalls == 1       \* provider calls made
MaxUploads == 1     \* files uploaded
MaxInFlight == 2    \* transform requests in flight

----------------------------------------------------------------------------
(* JSON values *)

Scale == 10

Str(s) == [str |-> s]
Num(n) == [num |-> n]
JsInt(k) == [num |-> k * Scale]
Undefined == [undef |-> TRUE]
Null == [null |-> TRUE]
NaN == [nan |-> TRUE]

IsString(v) == DOMAIN v = {"str"}
IsNumber(v) == DOMAIN v = {"num"}
IsUndefined(v) == DOMAIN v = {"undef"}
IsNull(v) == DOMAIN v = {"null"}
isNaN(v) == DOMAIN v = {"nan"}

----------------------------------------------------------------------------
(* Texts and word counting *)

WhiteSpace == {" ", "\n"}
Chars == {"a", "b"} \cup WhiteSpace

IsSpace(c) == c \in WhiteSpace

\* String.prototype.trim
trim(s) ==
    LET solid == {i \in 1..Len(s) : ~IsSpace(s[i])}
    IN  IF solid = {} THEN <<>>
        ELSE SubSeq(s, CHOOSE i \in solid : \A j \in solid : i <= j,
                       CHOOSE i \in solid : \A j \in solid : i >= j)

\* String.prototype.split(/\s+/): the pieces between the maximal runs of
\* white space, the empty pieces before a leading run and after a trailing
\* run included; the empty string splits into one empty piece.
split(s) ==
    LET F[i \in 0..Len(s)] ==
            IF i = 0 THEN <<  <<>>, <<>>  >>
            ELSE IF IsSpace(s[i])
                 THEN IF i > 1 /\ IsSpace(s[i-1])
                      THEN F[i-1]
                      ELSE << Append(F[i-1][1], F[i-1][2]), <<>> >>
                 ELSE << F[i-1][1], Append(F[i-1][2], s[i]) >>
    IN  Append(F[Len(s)][1], F[Len(s)][2])

splitNoTrim(text) == IF text = <<>> THEN 0 ELSE Len(split(text))

\* the tools' countWords helper
countWords(text) ==
    IF trim(text) = <<>> THEN 0 ELSE Len(split(trim(text)))

\* the body of WordCounter's effect
WordCounter(text) ==
    IF text = <<>> THEN 0
    ELSE Len(SelectSeq(split(trim(text)), LAMBDA word : Len(word) > 0))

\* countWords of server/ai: split on runs of white space, drop the empty
\* tokens, count the rest
serverCountWords(text) ==
    Len(SelectSeq(split(text), LAMBDA word : Len(word) > 0))

RECURSIVE TextsUpTo(_)
TextsUpTo(n) ==
    IF n = 0 THEN {<<>>}
    ELSE LET shorter == TextsUpTo(n - 1)
         IN  shorter \cup {Append(t, c) : t \in {u \in shorter : Len(u) = n - 1}, c \in Chars}

----------------------------------------------------------------------------
(* The WordCounter component under a tool's text area *)

\* the text area's onChange: setInputText(e.target.value)
setInputText(t) ==
    /\ t # inputText
    /\ inputText' = t
    /\ effectPending' = TRUE
    /\ UNCHANGED <<wordCount, screenVars, historyVars, serverVars>>

\* useEffect(..., [text])
WordCounterEffect ==
    /\ effectPending
    /\ wordCount' = WordCounter(inputText)
    /\ effectPending' = FALSE
    /\ UNCHANGED <<inputText, screenVars, historyVars, serverVars>>

----------------------------------------------------------------------------
(* The relational schema: shared/schema.ts and the migration *)

NoUser == 0

contentTypes == {"expand", "summarize", "similar", "template"}

UserColumns ==
    {"id", "username", "email", "password", "fullName", "profileImage", "theme",
     "createdAt"}

UserNotNull == {"username", "email", "password"}

ids(rows) == {r.id : r \in rows}

\* PRIMARY KEY (id)
users_pkey(rows) ==
    \A r, q \in rows : r.id = q.id => r = q

users_username_unique_dropped(rows) == TRUE

\* CONSTRAINT users_username_unique UNIQUE(username)
users_username_unique(rows) ==
    \A r, q \in rows : r.username = q.username => r = q

\* CONSTRAINT users_email_unique UNIQUE(email)
users_email_unique(rows) ==
    \A r, q \in rows : r.email = q.email => r = q

users_not_null(rows) ==
    \A r \in rows : \A c \in UserNotNull : IsString(r[c])

contents_user_id_users_id_fk_dropped(userRows, contentRows) == TRUE

\* CONSTRAINT contents_user_id_users_id_fk FOREIGN KEY (user_id) REFERENCES users(id)
\*   ON DELETE no action ON UPDATE no action
contents_user_id_users_id_fk(userRows, contentRows) ==
    \A c \in contentRows : c.userId \in ids(userRows)

\* what the database accepts as table users beside table contents
usersConstraints(userRows, contentRows) ==
    /\ users_pkey(userRows)
    /\ users_username_unique(userRows)
    /\ users_email_unique(userRows)
    /\ users_not_null(userRows)
    /\ contents_user_id_users_id_fk(userRows, contentRows)

\* a number the database takes for an integer column
IsInteger(v) == IsNumber(v) /\ v.num % Scale = 0

----------------------------------------------------------------------------
(* DatabaseStorage *)

\* the latest created_at among the rows
latest(rows) ==
    IF rows = {} THEN 0
    ELSE CHOOSE t \in {r.createdAt : r \in rows} : \A r \in rows : r.createdAt <= t

\* createUser: the outcome of the INSERT ... RETURNING; the serial sequence
\* is drawn from whether or not the row is accepted, and created_at is the
\* time of the insert, later than that of every user before
createUser(insertUser) ==
    LET row == [id |-> nextUserId,
                username |-> insertUser.username,
                email |-> insertUser.email,
                password |-> insertUser.password,
                fullName |-> Null,
                profileImage |-> Null,
                theme |-> Str("light"),
                createdAt |-> latest(users) + 1]
        rows == users \cup {row}
    IN  IF row.id \notin ids(users) /\ usersConstraints(rows, contents)
        THEN [ok |-> TRUE, rows |-> rows, row |-> row]
        ELSE [ok |-> FALSE, rows |-> users, row |-> Null]

safeUserDataKept(userData) == userData

\* const { password, ...safeUserData } = userData
safeUserData(userData) ==
    [c \in DOMAIN userData \ {"password"} |-> userData[c]]

updateUserEveryRow(id, userData) ==
    LET set == safeUserData(userData)
        cols == DOMAIN set \cap UserColumns
        old == users
        upd(r) == [c \in UserColumns |->
                     IF c \in cols
                     THEN IF c = "id" THEN set[c].num \div Scale ELSE set[c]
                     ELSE r[c]]
        new == {upd(r) : r \in old}
        rows == (users \ old) \cup new
    IN  IF /\ cols # {}
           /\ "createdAt" \notin cols
           /\ "id" \in cols => IsInteger(set["id"])
           /\ Cardinality(rows) = Cardinality(users)
           /\ usersConstraints(rows, contents)
        THEN [ok |-> TRUE, rows |-> rows,
              row |-> IF new = {} THEN Undefined ELSE CHOOSE r \in new : TRUE]
        ELSE [ok |-> FALSE, rows |-> users, row |-> Undefined]

\* updateUser: the outcome of the UPDATE ... SET ... WHERE id = ... RETURNING;
\* with no column to set the statement is never built, and neither is it with
\* a created_at, which the column maps to the driver as a Date and no JSON
\* body carries one
updateUser(id, userData) ==
    LET set == safeUserData(userData)
        cols == DOMAIN set \cap UserColumns
        old == {r \in users : r.id = id}
        upd(r) == [c \in UserColumns |->
                     IF c \in cols
                     THEN IF c = "id" THEN set[c].num \div Scale ELSE set[c]
                     ELSE r[c]]
        new == {upd(r) : r \in old}
        rows == (users \ old) \cup new
    IN  IF /\ cols # {}
           /\ "createdAt" \notin cols
           /\ "id" \in cols => IsInteger(set["id"])
           /\ Cardinality(rows) = Cardinality(users)
           /\ usersConstraints(rows, contents)
        THEN [ok |-> TRUE, rows |-> rows,
              row |-> IF new = {} THEN Undefined ELSE CHOOSE r \in new : TRUE]
        ELSE [ok |-> FALSE, rows |-> users, row |-> Undefined]

\* defaultNow(): the clock never runs backwards, and a row may be created
\* within the same tick as the row before it
defaultNow(rows) ==
    IF rows = {} THEN {1} ELSE {latest(rows), latest(rows) + 1}

\* defaultNow() when the clock ticks between any two inserts
defaultNowTicking(rows) == {latest(rows) + 1}

\* createContent: the outcome of the INSERT ... RETURNING at time now
createContent(content, now) ==
    LET row == [id |-> nextContentId,
                userId |-> content.userId.num \div Scale,
                title |-> content.title.str,
                originalContent |-> content.originalContent.str,
                transformedContent |-> content.transformedContent.str,
                contentType |-> content.contentType.str,
                originalWordCount |-> content.originalWordCount.num \div Scale,
                transformedWordCount |-> content.transformedWordCount.num \div Scale,
                createdAt |-> now,
                metadata |-> IF IsUndefined(content.metadata) THEN Null
                             ELSE content.metadata]
        rows == contents \cup {row}
    IN  IF /\ IsInteger(content.userId)
           /\ IsInteger(content.originalWordCount)
           /\ IsInteger(content.transformedWordCount)
           /\ contents_user_id_users_id_fk(users, rows)
        THEN [ok |-> TRUE, rows |-> rows, row |-> row]
        ELSE [ok |-> FALSE, rows |-> contents, row |-> Null]

getContentOfAnyId(id) ==
    IF contents # {}
    THEN CHOOSE c \in contents : \A d \in contents : d.id <= c.id
    ELSE Undefined

\* getContent
getContent(id) ==
    IF \E c \in contents : c.id = id
    THEN CHOOSE c \in contents : c.id = id
    ELSE Undefined

\* the orders ORDER BY created_at DESC may return the rows in
RECURSIVE orderByCreatedAtDesc(_)
orderByCreatedAtDesc(rows) ==
    IF rows = {} THEN {<<>>}
    ELSE UNION {{<<r>> \o rest : rest \in orderByCreatedAtDesc(rows \ {r})} :
                r \in {q \in rows : q.createdAt = latest(rows)}}

getUserContentsOfAll(userId) == orderByCreatedAtDesc(contents)

\* getUserContents
getUserContents(userId) ==
    orderByCreatedAtDesc({c \in contents : c.userId = userId})

\* getUserContentsByType
getUserContentsByType(userId, contentType) ==
    orderByCreatedAtDesc({c \in contents :
                            c.userId = userId /\ c.contentType = contentType})

\* .limit(limit) on the ordered rows: a positive limit cuts the result.  What
\* the query builder makes of any other number depends on its version: it
\* tests the limit either for truth (0 and NaN leave the clause out, LIMIT -1
\* is sent and the database refuses it) or for limit >= 0 (LIMIT 0 is sent,
\* a negative limit and NaN leave the clause out).
limitClause(rows, limit) ==
    IF isNaN(limit) THEN {[ok |-> TRUE, rows |-> rows]}
    ELSE LET n == limit.num \div Scale
         IN  IF n > 0
             THEN {[ok |-> TRUE,
                    rows |-> SubSeq(rows, 1, IF n < Len(rows) THEN n ELSE Len(rows))]}
             ELSE IF n = 0
             THEN {[ok |-> TRUE, rows |-> <<>>], [ok |-> TRUE, rows |-> rows]}
             ELSE {[ok |-> FALSE, rows |-> <<>>], [ok |-> TRUE, rows |-> rows]}

\* getRecentUserContents: the outcomes of the query
getRecentUserContents(userId, limit) ==
    UNION {limitClause(s, limit) :
             s \in orderByCreatedAtDesc({c \in contents : c.userId = userId})}

----------------------------------------------------------------------------
(* Request validation: shared/schema.ts *)

TemperatureMin == 0
TemperatureMax == 1
TopPMin == 0
TopPMax == 1
TopKMin == 1
TopKMax == 100
MaxOutputTokensMin == 50
MaxOutputTokensMax == 8192

AIParameterNames == {"temperature", "topP", "topK", "maxOutputTokens"}

numberBelow(v, lo, hi) ==
    IsUndefined(v) \/ (IsNumber(v) /\ v.num >= lo * Scale /\ v.num < hi * Scale)

\* z.number().min(lo).max(hi).default(...)
numberBetween(v, lo, hi) ==
    IsUndefined(v) \/ (IsNumber(v) /\ v.num >= lo * Scale /\ v.num <= hi * Scale)

\* aiParametersSchema
aiParametersSchema(p) ==
    /\ DOMAIN p = AIParameterNames
    /\ numberBetween(p.temperature, TemperatureMin, TemperatureMax)
    /\ numberBetween(p.topP, TopPMin, TopPMax)
    /\ numberBetween(p.topK, TopKMin, TopKMax)
    /\ numberBetween(p.maxOutputTokens, MaxOutputTokensMin, MaxOutputTokensMax)

textSchemaAnyString(v) == IsString(v)

\* text: z.string().min(1, "Content is required")
textSchema(v) == IsString(v) /\ Len(v.str) >= 1

contentTypeSchemaAnyString(v) == IsString(v)

\* contentTypeSchema = z.enum(contentTypes)
contentTypeSchema(v) == IsString(v) /\ v.str \in contentTypes

\* z.string().optional()
optionalString(v) == IsUndefined(v) \/ IsString(v)

\* contentValidationSchema.safeParse(req.body).success
contentValidationSchema(body) ==
    /\ textSchema(body.text)
    /\ contentTypeSchema(body.contentType)
    /\ optionalString(body.tone)
    /\ optionalString(body.audience)
    /\ IsUndefined(body.aiParameters) \/ aiParametersSchema(body.aiParameters)

insertContentSchemaMetadataRequired(data) ==
    /\ IsNumber(data.userId)
    /\ IsString(data.title)
    /\ IsString(data.originalContent)
    /\ IsString(data.transformedContent)
    /\ IsString(data.contentType)
    /\ IsNumber(data.originalWordCount)
    /\ IsNumber(data.transformedWordCount)
    /\ IsString(data.metadata)

\* insertContentSchema.safeParse(contentData).success: the picked columns of
\* table contents, text columns strings, integer columns numbers, metadata
\* the one that may be null or left out
insertContentSchema(data) ==
    /\ IsNumber(data.userId)
    /\ IsString(data.title)
    /\ IsString(data.originalContent)
    /\ IsString(data.transformedContent)
    /\ IsString(data.contentType)
    /\ IsNumber(data.originalWordCount)
    /\ IsNumber(data.transformedWordCount)
    /\ IsString(data.metadata) \/ IsNull(data.metadata) \/ IsUndefined(data.metadata)

----------------------------------------------------------------------------
(* parseInt *)

DigitChars == <<"0", "1", "2", "3", "4", "5", "6", "7", "8", "9">>

IsDigit(c) == \E k \in 1..Len(DigitChars) : DigitChars[k] = c

digitValue(c) == (CHOOSE k \in 1..Len(DigitChars) : DigitChars[k] = c) - 1

RECURSIVE digitsValue(_)
digitsValue(ds) ==
    IF ds = <<>> THEN 0
    ELSE Len(DigitChars) * digitsValue(SubSeq(ds, 1, Len(ds) - 1)) + digitValue(ds[Len(ds)])

\* parseInt(string): white space skipped, a sign, then the longest run of
\* decimal digits; NaN when there is none
parseInt(str) ==
    LET solid == {i \in 1..Len(str) : ~IsSpace(str[i])}
        t == IF solid = {} THEN <<>>
             ELSE SubSeq(str, CHOOSE i \in solid : \A j \in solid : i <= j, Len(str))
        signed == t # <<>> /\ t[1] \in {"-", "+"}
        u == IF signed THEN Tail(t) ELSE t
        n == Cardinality({k \in 1..Len(u) : \A j \in 1..k : IsDigit(u[j])})
        value == digitsValue(SubSeq(u, 1, n))
    IN  IF n = 0 THEN NaN
        ELSE JsInt(IF signed /\ t[1] = "-" THEN 0 - value ELSE value)

----------------------------------------------------------------------------
(* The API service: server/routes.ts *)

Message(m) == [message |-> m]

\* no request is being answered
Idle ==
    [route |-> "none", user |-> NoUser, req |-> Null, status |-> 0, body |-> Null,
     sent |-> 0]

\* res.status(status).json(body), kept with the request it answers until the
\* response is delivered
Respond(route, user, req, status, body) ==
    last' = [route |-> route, user |-> user, req |-> req,
             status |-> status, body |-> body, sent |-> last.sent + 1]

\* a handler is suspended at an await, its response not yet sent
Await(route, user, req) ==
    last' = [route |-> route, user |-> user, req |-> req,
             status |-> 0, body |-> Null, sent |-> last.sent]

\* the response is delivered and the exchange is over
Deliver ==
    /\ last.sent > 0
    /\ last' = Idle
    /\ UNCHANGED <<users, nextUserId, contents, nextContentId, providerCalls,
                   uploads, nextUuid>>
    /\ UNCHANGED clientVars

isAuthenticatedAlways(user) == TRUE

\* isAuthenticated: req.isAuthenticated(), a session that carries a user
isAuthenticated(user) == user # NoUser

\* a query string parameter that is there and not empty
truthy(v) == IsString(v) /\ v.str # ""

\* the same of a parameter held as a text
truthyText(v) == IsString(v) /\ Len(v.str) > 0

\* transformContent of server/ai: the provider answers with a text or fails
ProviderTexts == {<<"b">>, <<"b", " ", "a", "\n">>}
Thrown == [thrown |-> TRUE]
ProviderOutcomes == {Thrown} \cup {Str(t) : t \in ProviderTexts}

\* what the provider answered
transformResponse(body, transformedContent) ==
    [originalContent |-> body.text.str,
     transformedContent |-> transformedContent.str,
     contentType |-> body.contentType.str,
     originalWordCount |-> serverCountWords(body.text.str),
     transformedWordCount |-> serverCountWords(transformedContent.str),
     metadata |-> [tone |-> body.tone, audience |-> body.audience]]

TransformSaving(user, body) ==
    LET route == "POST /api/transform"
        req == [body |-> body]
    IN  /\ last = Idle
        /\ UNCHANGED <<users, nextUserId, uploads, nextUuid>>
        /\ UNCHANGED clientVars
        /\ isAuthenticated(user)
        /\ contentValidationSchema(body)
        /\ providerCalls < MaxCalls
        /\ providerCalls' = providerCalls + 1
        /\ nextContentId' = nextContentId + 1
        /\ \E transformedContent \in ProviderOutcomes \ {Thrown} :
             /\ contents' = contents \cup
                    {[transformResponse(body, transformedContent) EXCEPT !.metadata = Null]
                       @@ [id |-> nextContentId, userId |-> user, title |-> <<>>,
                           createdAt |-> latest(contents) + 1]}
             /\ Respond(route, user, req, 200, transformResponse(body, transformedContent))

TransformRetrying(user, body) ==
    LET route == "POST /api/transform"
        req == [body |-> body]
    IN  /\ last = Idle
        /\ UNCHANGED <<users, nextUserId, contents, nextContentId, uploads, nextUuid>>
        /\ UNCHANGED clientVars
        /\ IF ~isAuthenticated(user)
           THEN /\ Respond(route, user, req, 401, Message("Unauthorized"))
                /\ UNCHANGED providerCalls
           ELSE IF ~contentValidationSchema(body)
           THEN /\ Respond(route, user, req, 400, Message("Validation failed"))
                /\ UNCHANGED providerCalls
           ELSE /\ providerCalls < MaxCalls
                /\ \E first \in ProviderOutcomes, transformedContent \in ProviderOutcomes :
                     /\ providerCalls' = providerCalls + (IF first = Thrown THEN 2 ELSE 1)
                     /\ IF transformedContent = Thrown
                        THEN Respond(route, user, req, 500, Message("provider error"))
                        ELSE Respond(route, user, req, 200,
                                     transformResponse(body, transformedContent))

\* app.post("/api/transform", isAuthenticated, ...)
Transform(user, body) ==
    LET route == "POST /api/transform"
        req == [body |-> body]
    IN  /\ last = Idle
        /\ UNCHANGED <<users, nextUserId, contents, nextContentId, uploads, nextUuid>>
        /\ UNCHANGED clientVars
        /\ IF ~isAuthenticated(user)
           THEN /\ Respond(route, user, req, 401, Message("Unauthorized"))
                /\ UNCHANGED providerCalls
           ELSE IF ~contentValidationSchema(body)
           THEN /\ Respond(route, user, req, 400, Message("Validation failed"))
                /\ UNCHANGED providerCalls
           ELSE /\ providerCalls < MaxCalls
                /\ providerCalls' = providerCalls + 1
                /\ \E transformedContent \in ProviderOutcomes :
                     IF transformedContent = Thrown
                     THEN Respond(route, user, req, 500, Message("provider error"))
                     ELSE Respond(route, user, req, 200,
                                  transformResponse(body, transformedContent))

\* the same handler up to `await transformContent(content)`: the request is
\* refused, or the provider is called and the handler is suspended
TransformAwait(user, body) ==
    LET route == "POST /api/transform"
        req == [body |-> body]
    IN  /\ last = Idle
        /\ UNCHANGED <<users, nextUserId, contents, nextContentId, uploads, nextUuid>>
        /\ UNCHANGED clientVars
        /\ IF ~isAuthenticated(user)
           THEN /\ Respond(route, user, req, 401, Message("Unauthorized"))
                /\ UNCHANGED providerCalls
           ELSE IF ~contentValidationSchema(body)
           THEN /\ Respond(route, user, req, 400, Message("Validation failed"))
                /\ UNCHANGED providerCalls
           ELSE /\ providerCalls < MaxCalls
                /\ providerCalls' = providerCalls + 1
                /\ Await(route, user, req)

\* a request suspended in the transform handler
awaitingTransform == last.route = "POST /api/transform" /\ last.sent = 0

TransformResumeFallingThrough ==
    /\ awaitingTransform
    /\ UNCHANGED <<users, nextUserId, contents, nextContentId, providerCalls,
                   uploads, nextUuid>>
    /\ UNCHANGED clientVars
    /\ \E transformedContent \in ProviderOutcomes :
         IF transformedContent = Thrown
         THEN Respond(last.route, last.user, last.req, 500, Message("provider error"))
         ELSE last' = [last EXCEPT !.status = 500,
                                   !.body = Message("headers already sent"),
                                   !.sent = 2]

\* the rest of the handler, once the provider's call has returned or thrown
TransformResume ==
    /\ awaitingTransform
    /\ UNCHANGED <<users, nextUserId, contents, nextContentId, providerCalls,
                   uploads, nextUuid>>
    /\ UNCHANGED clientVars
    /\ \E transformedContent \in ProviderOutcomes :
         IF transformedContent = Thrown
         THEN Respond(last.route, last.user, last.req, 500, Message("provider error"))
         ELSE Respond(last.route, last.user, last.req, 200,
                      transformResponse(last.req.body, transformedContent))

contentDataBodyLast(body, user) ==
    IF IsUndefined(body.userId) THEN [body EXCEPT !.userId = JsInt(user)] ELSE body

\* const contentData = { ...req.body, userId: req.user!.id }
contentData(body, user) == [body EXCEPT !.userId = JsInt(user)]

\* app.post("/api/contents", isAuthenticated, ...), reached at time now
PostContents(user, body, now) ==
    LET route == "POST /api/contents"
        req == [body |-> body]
        data == contentData(body, user)
    IN  /\ last = Idle
        /\ UNCHANGED <<users, nextUserId, providerCalls, uploads, nextUuid>>
        /\ UNCHANGED clientVars
        /\ IF ~isAuthenticated(user)
           THEN /\ Respond(route, user, req, 401, Message("Unauthorized"))
                /\ UNCHANGED <<contents, nextContentId>>
           ELSE IF ~insertContentSchema(data)
           THEN /\ Respond(route, user, req, 400, Message("Validation failed"))
                /\ UNCHANGED <<contents, nextContentId>>
           ELSE /\ nextContentId <= MaxContents
                /\ nextContentId' = nextContentId + 1
                /\ LET saved == createContent(data, now)
                   IN  /\ contents' = saved.rows
                       /\ IF saved.ok
                          THEN Respond(route, user, req, 201, saved.row)
                          ELSE Respond(route, user, req, 500, Message("insert failed"))

ListableTypes == {"expand", "summarize", "similar"}

\* app.get("/api/contents", isAuthenticated, ...)
GetContents(user, type) ==
    LET route == "GET /api/contents"
        req == [type |-> type]
    IN  /\ last = Idle
        /\ UNCHANGED <<users, nextUserId, contents, nextContentId, providerCalls,
                       uploads, nextUuid>>
        /\ UNCHANGED clientVars
        /\ IF ~isAuthenticated(user)
           THEN Respond(route, user, req, 401, Message("Unauthorized"))
           ELSE IF truthy(type)
           THEN IF type.str \notin ListableTypes
                THEN Respond(route, user, req, 400, Message("Invalid content type"))
                ELSE \E rows \in getUserContentsByType(user, type.str) :
                       Respond(route, user, req, 200, [rows |-> rows])
           ELSE \E rows \in getUserContents(user) :
                  Respond(route, user, req, 200, [rows |-> rows])

DefaultLimit == 10

\* app.get("/api/contents/recent", isAuthenticated, ...)
GetRecentContents(user, limitParam) ==
    LET route == "GET /api/contents/recent"
        req == [limit |-> limitParam]
        limit == IF truthyText(limitParam) THEN parseInt(limitParam.str) ELSE JsInt(DefaultLimit)
    IN  /\ last = Idle
        /\ UNCHANGED <<users, nextUserId, contents, nextContentId, providerCalls,
                       uploads, nextUuid>>
        /\ UNCHANGED clientVars
        /\ IF ~isAuthenticated(user)
           THEN Respond(route, user, req, 401, Message("Unauthorized"))
           ELSE \E found \in getRecentUserContents(user, limit) :
                  IF found.ok
                  THEN Respond(route, user, req, 200, [rows |-> found.rows])
                  ELSE Respond(route, user, req, 500, Message("query failed"))

isForbiddenNever(content, user) == FALSE

\* content.userId !== req.user!.id
isForbidden(content, user) == content.userId # user

\* app.get("/api/contents/:id", isAuthenticated, ...)
GetContent(user, idParam) ==
    LET route == "GET /api/contents/:id"
        req == [id |-> idParam]
        contentId == parseInt(idParam)
        content == getContent(contentId.num \div Scale)
    IN  /\ last = Idle
        /\ UNCHANGED <<users, nextUserId, contents, nextContentId, providerCalls,
                       uploads, nextUuid>>
        /\ UNCHANGED clientVars
        /\ IF ~isAuthenticated(user)
           THEN Respond(route, user, req, 401, Message("Unauthorized"))
           ELSE IF isNaN(contentId)
           THEN Respond(route, user, req, 400, Message("Invalid content ID"))
           ELSE IF IsUndefined(content)
           THEN Respond(route, user, req, 404, Message("Content not found"))
           ELSE IF isForbidden(content, user)
           THEN Respond(route, user, req, 403, Message("Forbidden"))
           ELSE Respond(route, user, req, 200, content)

\* app.patch("/api/profile", isAuthenticated, ...)
PatchProfile(user, body) ==
    LET route == "PATCH /api/profile"
        req == [body |-> body]
    IN  /\ last = Idle
        /\ UNCHANGED <<nextUserId, contents, nextContentId, providerCalls,
                       uploads, nextUuid>>
        /\ UNCHANGED clientVars
        /\ IF ~isAuthenticated(user)
           THEN /\ Respond(route, user, req, 401, Message("Unauthorized"))
                /\ UNCHANGED users
           ELSE LET updated == updateUser(user, body)
                IN  /\ users' = updated.rows
                    /\ IF updated.ok
                       THEN Respond(route, user, req, 200, updated.row)
                       ELSE Respond(route, user, req, 500, Message("update failed"))

\* limits: { fileSize: 5 * 1024 * 1024 }
fileSizeLimit == 5 * 1024 * 1024

\* whether the multipart parser reports the fileSize limit for the file: it
\* does for a file past the limit and does not for one below it; for a file
\* of exactly the limit it depends on the parser's version (the limit is
\* reported either past it or on reaching it)
limitReported(file) ==
    IF file.size = fileSizeLimit THEN BOOLEAN ELSE {file.size > fileSizeLimit}

fileFilterAny(file) == TRUE

\* fileFilter: file.mimetype.startsWith('image/')
fileFilter(file) == file.mimetype[1] = "image"

\* uploadStorage.filename: `${uuidv4()}${path.extname(file.originalname)}`
filename(uuid, file) == [uuid |-> uuid, ext |-> file.originalname.ext]

\* app.post("/api/profile/image", isAuthenticated, upload.single('image'), ...)
PostProfileImage(user, file) ==
    LET route == "POST /api/profile/image"
        req == [file |-> file]
    IN  /\ last = Idle
        /\ UNCHANGED <<nextUserId, contents, nextContentId, providerCalls>>
        /\ UNCHANGED clientVars
        /\ IF ~isAuthenticated(user)
           THEN /\ Respond(route, user, req, 401, Message("Unauthorized"))
                /\ UNCHANGED <<users, uploads, nextUuid>>
           ELSE IF IsUndefined(file)
           THEN /\ Respond(route, user, req, 400, Message("No image file provided"))
                /\ UNCHANGED <<users, uploads, nextUuid>>
           ELSE IF ~fileFilter(file)
           THEN /\ Respond(route, user, req, 500, Message("Only image files are allowed"))
                /\ UNCHANGED <<users, uploads, nextUuid>>
           ELSE /\ nextUuid <= MaxUploads
                /\ nextUuid' = nextUuid + 1
                /\ \E tooLarge \in limitReported(file) :
                     IF tooLarge
                     THEN /\ Respond(route, user, req, 500, Message("File too large"))
                          /\ UNCHANGED <<users, uploads>>
                     ELSE LET stored == filename(nextUuid, file)
                              updated == updateUser(user, [profileImage |-> Str(stored)])
                          IN  /\ uploads' = uploads \cup {stored}
                              /\ users' = updated.rows
                              /\ IF updated.ok
                                 THEN Respond(route, user, req, 200,
                                              [imageUrl |-> Str(stored), user |-> updated.row])
                                 ELSE Respond(route, user, req, 500, Message("update failed"))

\* POST /api/register of server/auth: a taken username or email is refused,
\* else the user is created with the hashed password
Register(username, email) ==
    LET route == "POST /api/register"
        req == [body |-> [username |-> Str(username), email |-> Str(email)]]
    IN  /\ last = Idle
        /\ UNCHANGED <<contents, nextContentId, providerCalls, uploads, nextUuid>>
        /\ UNCHANGED clientVars
        /\ IF \E r \in users : r.username = Str(username) \/ r.email = Str(email)
           THEN /\ Respond(route, NoUser, req, 400, Message("Username already exists"))
                /\ UNCHANGED <<users, nextUserId>>
           ELSE /\ nextUserId <= MaxUsers
                /\ nextUserId' = nextUserId + 1
                /\ LET created == createUser([username |-> Str(username),
                                              email |-> Str(email),
                                              password |-> Str("hashed")])
                   IN  /\ users' = created.rows
                       /\ IF created.ok
                          THEN Respond(route, NoUser, req, 201, created.row)
                          ELSE Respond(route, NoUser, req, 500, Message("insert failed"))

----------------------------------------------------------------------------
(* The history page: its detail dialog and its delete confirmation.  Both   *)
(* dialogs are modal: a button of the list is reached with neither open, a  *)
(* button of a dialog with that dialog open.  The page is used between two  *)
(* exchanges with the service.                                              *)

\* View Details of a row of the list: setSelectedContent(content)
viewDetails(content) ==
    /\ last = Idle
    /\ selectedContent = Null
    /\ ~isDeleteDialogOpen
    /\ selectedContent' = content
    /\ UNCHANGED <<isDeleteDialogOpen, toast, toolVars, serverVars>>

\* the detail dialog's onOpenChange(false): setSelectedContent(null)
closeDetails ==
    /\ last = Idle
    /\ selectedContent # Null
    /\ ~isDeleteDialogOpen
    /\ selectedContent' = Null
    /\ UNCHANGED <<isDeleteDialogOpen, toast, toolVars, serverVars>>

\* Delete of a row of the list: setSelectedContent(content),
\* setIsDeleteDialogOpen(true)
askDelete(content) ==
    /\ last = Idle
    /\ selectedContent = Null
    /\ ~isDeleteDialogOpen
    /\ selectedContent' = content
    /\ isDeleteDialogOpen' = TRUE
    /\ UNCHANGED <<toast, toolVars, serverVars>>

\* Delete of the detail dialog: setIsDeleteDialogOpen(true)
askDeleteOfDetails ==
    /\ last = Idle
    /\ selectedContent # Null
    /\ ~isDeleteDialogOpen
    /\ isDeleteDialogOpen' = TRUE
    /\ UNCHANGED <<selectedContent, toast, toolVars, serverVars>>

\* Cancel of the confirmation: setIsDeleteDialogOpen(false)
cancelDelete ==
    /\ last = Idle
    /\ isDeleteDialogOpen
    /\ isDeleteDialogOpen' = FALSE
    /\ UNCHANGED <<selectedContent, toast, toolVars, serverVars>>

handleDeleteContentDeleting ==
    /\ last = Idle
    /\ isDeleteDialogOpen
    /\ selectedContent # Null
    /\ toast' = Str("Content deleted")
    /\ isDeleteDialogOpen' = FALSE
    /\ contents' = contents \ {selectedContent}
    /\ UNCHANGED <<selectedContent, toolVars, users, nextUserId, nextContentId,
                   providerCalls, uploads, nextUuid, last>>

\* Delete of the confirmation: handleDeleteContent.  No request is sent: the
\* toast is shown, the confirmation closed and the list query invalidated,
\* which has the list fetched again by a GET /api/contents like any other.
handleDeleteContent ==
    /\ last = Idle
    /\ isDeleteDialogOpen
    /\ selectedContent # Null
    /\ toast' = Str("Content deleted")
    /\ isDeleteDialogOpen' = FALSE
    /\ UNCHANGED <<selectedContent, toolVars, serverVars>>

\* the toast goes away
dismissToast ==
    /\ last = Idle
    /\ toast # Null
    /\ toast' = Null
    /\ UNCHANGED <<selectedContent, isDeleteDialogOpen, toolVars, serverVars>>

\* a request to a path that no route of registerRoutes matches: no handler
\* runs and the tables stay as they are; what follows the routes answers, with
\* Not Found or, where the client's pages are served for every other path,
\* with the page
NoRoute(route, user, req) ==
    /\ last = Idle
    /\ UNCHANGED <<users, nextUserId, contents, nextContentId, providerCalls,
                   uploads, nextUuid>>
    /\ UNCHANGED clientVars
    /\ \/ Respond(route, user, req, 404, Message("Not Found"))
       \/ Respond(route, user, req, 200, Str("index.html"))

\* templateExamples: the content the Templates form starts with, by type
templateExamples(templateType) ==
    IF templateType = "lesson-plan"
    THEN <<"#", " ", "L", "e", "s", "s", "o", "n", " ", "P", "l", "a", "n">>
    ELSE <<"#", " ", "S", "t", "u", "d", "y", " ", "G", "u", "i", "d", "e">>

\* templateSchema: a title of 2 to 100 characters, a type, 10 characters of content
templateSchema(data) ==
    /\ Len(data.title) >= 2
    /\ Len(data.title) <= 100
    /\ data.templateType # ""
    /\ Len(data.content) >= 10

\* saveTemplateMutation, on the form's submission with values the form accepts
saveTemplateMutation(user, data) ==
    /\ templateSchema(data)
    /\ NoRoute("POST /api/content", user,
               [body |-> [title |-> Str(data.title),
                          contentType |-> Str("template"),
                          originalText |-> Str(data.content),
                          transformedText |-> Str(data.content),
                          metadata |-> [templateType |-> Str(data.templateType)]]])

----------------------------------------------------------------------------
(* The requests the clients send *)

Callers == {NoUser} \cup ids(users)

OriginalText == <<"a", " ", "b">>
TransformedText == <<"b">>

\* the body a tool's saveMutation builds
ToolSaveBody(contentType) ==
    [userId |-> Undefined,
     title |-> Str("t"),
     originalContent |-> Str(OriginalText),
     transformedContent |-> Str(TransformedText),
     contentType |-> Str(contentType),
     originalWordCount |-> JsInt(countWords(OriginalText)),
     transformedWordCount |-> JsInt(countWords(TransformedText)),
     metadata |-> Undefined]

\* bodies that carry every required field with the type of its column
WellFormedSaveBodies ==
    {ToolSaveBody(t) : t \in {"expand", "essay"}}
    \cup {[ToolSaveBody("expand") EXCEPT !.originalWordCount = JsInt(0 - 1)]}

\* bodies that lack a required field or carry one of the wrong type
MalformedSaveBodies ==
    {[ToolSaveBody("expand") EXCEPT ![f] = Undefined] :
        f \in {"title", "originalContent", "transformedContent", "contentType",
               "originalWordCount", "transformedWordCount"}}
    \cup {[ToolSaveBody("expand") EXCEPT !.title = JsInt(1)],
          [ToolSaveBody("expand") EXCEPT !.originalWordCount = Str("2")],
          [ToolSaveBody("expand") EXCEPT !.metadata = JsInt(1)]}

UserIdInputs == {Undefined, Str("1")} \cup {JsInt(k) : k \in 1..MaxUsers + 1}

SaveBodies ==
    WellFormedSaveBodies \cup MalformedSaveBodies
    \cup {[ToolSaveBody("expand") EXCEPT !.userId = uid] : uid \in UserIdInputs}

TransformBody(text, contentType, tone, audience, parameters) ==
    [text |-> text, contentType |-> contentType, tone |-> tone,
     audience |-> audience, aiParameters |-> parameters]

\* aiParameters: {} , every parameter left to its default
NoAIParameters == [n \in AIParameterNames |-> Undefined]

\* every parameter at its lower, and every parameter at its upper bound
LowestAIParameters ==
    [temperature |-> JsInt(TemperatureMin), topP |-> JsInt(TopPMin),
     topK |-> JsInt(TopKMin), maxOutputTokens |-> JsInt(MaxOutputTokensMin)]
HighestAIParameters ==
    [temperature |-> JsInt(TemperatureMax), topP |-> JsInt(TopPMax),
     topK |-> JsInt(TopKMax), maxOutputTokens |-> JsInt(MaxOutputTokensMax)]

\* the values tried for a parameter of bounds lo and hi: each bound, one
\* unit and one fixed-point step to either side of it, and a string
Around(lo, hi) ==
    {Str("1")} \cup
    {Num(b * Scale + d) : b \in {lo, hi}, d \in {0 - Scale, 0 - 1, 0, 1, Scale}}

\* one parameter set, the others left out
AIParameterInputs ==
    {NoAIParameters, LowestAIParameters, HighestAIParameters}
    \cup {[NoAIParameters EXCEPT !.temperature = v] :
            v \in Around(TemperatureMin, TemperatureMax)}
    \cup {[NoAIParameters EXCEPT !.topP = v] : v \in Around(TopPMin, TopPMax)}
    \cup {[NoAIParameters EXCEPT !.topK = v] : v \in Around(TopKMin, TopKMax)}
    \cup {[NoAIParameters EXCEPT !.maxOutputTokens = v] :
            v \in Around(MaxOutputTokensMin, MaxOutputTokensMax)}

TextInputs == {Undefined, JsInt(1), Str(<<>>), Str(<<" ">>), Str(OriginalText)}

ContentTypeInputs ==
    {Undefined, JsInt(1), Str(""), Str("essay")} \cup {Str(t) : t \in contentTypes}

TransformBodies ==
    {TransformBody(text, type, Undefined, Undefined, ai) :
        text \in TextInputs, type \in ContentTypeInputs,
        ai \in {Undefined, HighestAIParameters,
                [NoAIParameters EXCEPT !.topK = JsInt(TopKMax + 1)]}}
    \cup {TransformBody(Str(OriginalText), Str("similar"), tone, audience, Undefined) :
            tone \in {Undefined, Str("formal"), JsInt(1)},
            audience \in {Undefined, Str("students"), JsInt(1)}}
    \cup {TransformBody(Str(OriginalText), Str("expand"), Undefined, Undefined, ai) :
            ai \in AIParameterInputs \cup {Str("high")}}

SomeSaveBodies ==
    {ToolSaveBody("expand"), [ToolSaveBody("expand") EXCEPT !.title = Undefined]}

SomeTransformBodies ==
    {TransformBody(text, Str("summarize"), Undefined, Undefined, Undefined) :
        text \in {Str(<<>>), Str(OriginalText)}}

SomeTypeParams == {Undefined, Str("expand"), Str("essay")}

SomeLimitParams == {Undefined, Str(<<"1">>)}

\* a tool's save body of each type of the enumeration
TypedSaveBodies == {ToolSaveBody(t) : t \in contentTypes}

\* ?type= absent, empty, each type of the enumeration, and another word
TypeParams == {Undefined, Str(""), Str("essay")} \cup {Str(t) : t \in contentTypes}

\* ?limit= absent, empty, numerals from -1 to the number of rows there can
\* be, a numeral with a tail, and a word
LimitParams ==
    {Undefined, Str(<<>>), Str(<<"-", "1">>), Str(<<"1", "x">>), Str(<<"x">>)}
    \cup {Str(<<DigitChars[k + 1]>>) : k \in 0..MaxContents}

IdParams ==
    {<<DigitChars[k + 1]>> : k \in 1..MaxContents + 1} \cup {<<"1", "x">>, <<"x">>}

SomeIdParams == {<<"1">>, <<"x">>}

\* the first id of the sequence, an id the sequence never reaches, and bodies
\* that name the password
PatchBodies ==
    {[id |-> JsInt(1)], [id |-> JsInt(MaxUsers + 1)],
     [password |-> Str("chosen")],
     [password |-> Str("chosen"), fullName |-> Null]}

\* what the settings form sends of the name and the theme
FormBody == [fullName |-> Str("n"), theme |-> Str("dark")]

\* bodies of the settings form (the name and the theme; a username that a
\* registration gives or one that none does; the email of the first user),
\* and bodies any other client may send: a password, alone or along the
\* form's fields, an image path, an id, a creation time, a null username
ProfileBodies ==
    {FormBody,
     [email |-> Str(1)],
     [password |-> Str("chosen")],
     [password |-> Str("chosen"), fullName |-> Str("n"), theme |-> Str("dark")],
     [profileImage |-> Str([uuid |-> 0, ext |-> ".js"])],
     [id |-> JsInt(MaxUsers)],
     [createdAt |-> Str("2000-01-01")],
     [username |-> Null]}
    \cup {[username |-> Str(k)] : k \in 1..MaxUsers + 1}

SomePatchBodies ==
    {[password |-> Str("chosen")], [fullName |-> Str("n")]}

FileInputs ==
    {Undefined}
    \cup {[mimetype |-> m, size |-> z, originalname |-> [stem |-> "me", ext |-> ".png"]] :
            m \in {<<"image", "png">>, <<"text", "plain">>},
            z \in {fileSizeLimit, fileSizeLimit + 1}}

----------------------------------------------------------------------------
(* The tool screens: ExpandTool, SummarizeTool, SimilarTool *)

\* the tools of the dashboard that transform a text
Tools == {"expand", "summarize", "similar"}

\* DEFAULT_PARAMETERS, and the initial aiParameters of ExpandTool
DEFAULT_PARAMETERS ==
    [temperature |-> Num(7), topP |-> Num(8), topK |-> JsInt(40),
     maxOutputTokens |-> JsInt(2048)]

\* generateTitle: the first five pieces of text.split(/\s+/) joined by a
\* space, with "..." where there are more
generateTitle(text) ==
    LET words == split(text)
        n == IF Len(words) > 5 THEN 5 ELSE Len(words)
        joined[i \in 1..n] ==
            IF i = 1 THEN words[1] ELSE joined[i - 1] \o <<" ">> \o words[i]
    IN  joined[n] \o (IF Len(words) > 5 THEN <<".", ".", ".">> ELSE <<>>)

\* the body the shown tool's mutationFn sends to POST /api/transform
transformBodyOf(tool, text) ==
    IF tool = "expand"
    THEN TransformBody(Str(text), Str("expand"), Undefined, Undefined, aiParameters)
    ELSE IF tool = "summarize"
    THEN TransformBody(Str(text), Str("summarize"), Undefined, Undefined, Undefined)
    ELSE TransformBody(Str(text), Str("similar"), Str("Academic"),
                       Str("K-12 Students"), Undefined)

\* the body the shown tool's saveMutation sends to POST /api/contents; the
\* string JSON.stringify gives is held as the object it writes out
saveBodyOf(tool, user) ==
    [userId |-> JsInt(user),
     title |-> Str(IF title # <<>> THEN title ELSE generateTitle(inputText)),
     originalContent |-> Str(inputText),
     transformedContent |-> Str(outputText),
     contentType |-> Str(tool),
     originalWordCount |-> JsInt(countWords(inputText)),
     transformedWordCount |-> JsInt(countWords(outputText)),
     metadata |-> Str(IF tool = "expand"
                      THEN [aiParameters |-> aiParameters, tone |-> "", audience |-> ""]
                      ELSE IF tool = "similar"
                      THEN [tone |-> "Academic", audience |-> "K-12 Students"]
                      ELSE <<>>)]

\* the mutation of the tool component that is mounted has a request in flight
isPending == \E r \in inFlight : r.mine

\* the transform button's onClick, mutate(inputText), by the signed-in user:
\* the button is disabled while the mutation is pending or the input trims
\* to nothing, and mutationFn throws before sending for such a text
mutate(user) ==
    /\ ~isPending
    /\ trim(inputText) # <<>>
    /\ Cardinality(inFlight) < MaxInFlight
    /\ inFlight' = inFlight \cup
                     {[tool |-> activeTool, user |-> user,
                       body |-> transformBodyOf(activeTool, inputText),
                       mine |-> TRUE]}
    /\ cleared' = FALSE
    /\ UNCHANGED <<inputText, wordCount, effectPending, activeTool, outputText,
                   title, dialogVars, generatedFrom>>
    /\ UNCHANGED <<historyVars, serverVars>>

\* the API service handles a request that is in flight
Serve == \E r \in inFlight : Transform(r.user, r.body)

\* onSuccess(data) of the transform mutation
onSuccess(data) ==
    /\ outputText' = data.transformedContent
    /\ title' = IF title = <<>> THEN generateTitle(inputText) ELSE title
    /\ generatedFrom' = data.originalContent

\* the response reaches the client: onSuccess or onError (a toast) runs, on
\* the state of the component that sent the request if it is still mounted
Settle ==
    /\ last.route = "POST /api/transform"
    /\ last.sent = 1
    /\ \E r \in inFlight :
         /\ r.user = last.user
         /\ r.body = last.req.body
         /\ inFlight' = inFlight \ {r}
         /\ IF r.mine /\ last.status = 200
            THEN onSuccess(last.body)
            ELSE UNCHANGED <<outputText, title, generatedFrom>>
    /\ last' = Idle
    /\ UNCHANGED <<inputText, wordCount, effectPending, activeTool, dialogVars,
                   cleared>>
    /\ UNCHANGED historyVars
    /\ UNCHANGED <<users, nextUserId, contents, nextContentId, providerCalls,
                   uploads, nextUuid>>

\* the response to any other request is delivered
DeliverToPage == last.route # "POST /api/transform" /\ Deliver

\* handleClear
handleClear ==
    /\ inputText' = <<>>
    /\ outputText' = <<>>
    /\ title' = <<>>
    /\ effectPending' = (effectPending \/ inputText # <<>>)
    /\ generatedFrom' = <<>>
    /\ cleared' = TRUE
    /\ UNCHANGED <<wordCount, activeTool, inFlight, dialogVars>>
    /\ UNCHANGED <<historyVars, serverVars>>

\* the save button's onClick, saveMutation.mutate(), by the signed-in user at
\* time now: the button is disabled while the output trims to nothing, and
\* mutationFn throws before sending for such an output
saveMutate(user, now) ==
    /\ trim(outputText) # <<>>
    /\ PostContents(user, saveBodyOf(activeTool, user), now)

\* the dashboard's setActiveTool: the tool shown is unmounted and the other
\* mounted with its initial state; a request of the unmounted component stays
\* in flight, and its callbacks no longer reach a mounted component
setActiveTool(tool) ==
    /\ tool # activeTool
    /\ activeTool' = tool
    /\ inputText' = <<>>
    /\ wordCount' = 0
    /\ effectPending' = TRUE
    /\ outputText' = <<>>
    /\ title' = <<>>
    /\ aiParameters' = DEFAULT_PARAMETERS
    /\ localParameters' = DEFAULT_PARAMETERS
    /\ open' = FALSE
    /\ inFlight' = {[r EXCEPT !.mine = FALSE] : r \in inFlight}
    /\ generatedFrom' = <<>>
    /\ cleared' = FALSE
    /\ UNCHANGED <<historyVars, serverVars>>

----------------------------------------------------------------------------
(* AIParametersDialog, in the input section of ExpandTool *)

\* handleOpenChange
handleOpenChange(newOpen) ==
    /\ activeTool = "expand"
    /\ newOpen # open
    /\ open' = newOpen
    /\ localParameters' = IF newOpen THEN aiParameters ELSE localParameters
    /\ UNCHANGED <<inputText, wordCount, effectPending, activeTool, outputText,
                   title, inFlight, aiParameters, generatedFrom, cleared>>
    /\ UNCHANGED <<historyVars, serverVars>>

\* a change inside the dialog, which shows its content while it is open
setLocalParameters(parameters) ==
    /\ open
    /\ localParameters' = parameters
    /\ UNCHANGED <<inputText, wordCount, effectPending, activeTool, outputText,
                   title, inFlight, aiParameters, open, generatedFrom, cleared>>
    /\ UNCHANGED <<historyVars, serverVars>>

\* handleTemperatureChange, with the value of the slider in tenths
handleTemperatureChange(value) ==
    setLocalParameters([localParameters EXCEPT !.temperature = Num(value)])

\* handleTopPChange, with the value of the slider in tenths
handleTopPChange(value) ==
    setLocalParameters([localParameters EXCEPT !.topP = Num(value)])

handleTopKChangeUnchecked(value) ==
    LET numValue == parseInt(value)
    IN  IF ~isNaN(numValue)
        THEN setLocalParameters([localParameters EXCEPT !.topK = numValue])
        ELSE setLocalParameters(localParameters)

\* handleTopKChange, with the text of the input
handleTopKChange(value) ==
    LET numValue == parseInt(value)
    IN  IF /\ ~isNaN(numValue)
           /\ numValue.num >= TopKMin * Scale
           /\ numValue.num <= TopKMax * Scale
        THEN setLocalParameters([localParameters EXCEPT !.topK = numValue])
        ELSE setLocalParameters(localParameters)

\* handleMaxTokensChange, with the text of the input
handleMaxTokensChange(value) ==
    LET numValue == parseInt(value)
    IN  IF /\ ~isNaN(numValue)
           /\ numValue.num >= MaxOutputTokensMin * Scale
           /\ numValue.num <= MaxOutputTokensMax * Scale
        THEN setLocalParameters([localParameters EXCEPT !.maxOutputTokens = numValue])
        ELSE setLocalParameters(localParameters)

\* handleSave: onChange(localParameters), which is handleAIParametersChange
\* of ExpandTool, and setOpen(false)
handleSave ==
    /\ open
    /\ aiParameters' = localParameters
    /\ open' = FALSE
    /\ UNCHANGED <<inputText, wordCount, effectPending, activeTool, outputText,
                   title, inFlight, localParameters, generatedFrom, cleared>>
    /\ UNCHANGED <<historyVars, serverVars>>

\* handleReset: the defaults, and onReset(), which is handleAIParametersReset
\* of ExpandTool
handleReset ==
    /\ open
    /\ localParameters' = DEFAULT_PARAMETERS
    /\ aiParameters' = DEFAULT_PARAMETERS
    /\ UNCHANGED <<inputText, wordCount, effectPending, activeTool, outputText,
                   title, inFlight, open, generatedFrom, cleared>>
    /\ UNCHANGED <<historyVars, serverVars>>

----------------------------------------------------------------------------
(* The specifications *)

Init ==
    /\ users = {}
    /\ nextUserId = 1
    /\ contents = {}
    /\ nextContentId = 1
    /\ providerCalls = 0
    /\ uploads = {}
    /\ nextUuid = 1
    /\ last = Idle
    /\ inputText = <<>>
    /\ wordCount = 0
    /\ effectPending = TRUE
    /\ activeTool = "expand"
    /\ outputText = <<>>
    /\ title = <<>>
    /\ inFlight = {}
    /\ aiParameters = DEFAULT_PARAMETERS
    /\ localParameters = DEFAULT_PARAMETERS
    /\ open = FALSE
    /\ generatedFrom = <<>>
    /\ cleared = FALSE
    /\ selectedContent = Null
    /\ isDeleteDialogOpen = FALSE
    /\ toast = Null

\* a registration under a name that is taken or under the next free one
PostRegister ==
    \E name \in 1..Cardinality(users) + 1 : Register(name, name)

PostTransform == \E user \in Callers, body \in SomeTransformBodies : Transform(user, body)

PostTransformAny == \E user \in Callers, body \in TransformBodies : Transform(user, body)

PostContentsSome ==
    \E user \in Callers, body \in SomeSaveBodies, now \in defaultNowTicking(contents) :
        PostContents(user, body, now)

PostContentsAny ==
    \E user \in Callers, body \in SaveBodies, now \in defaultNowTicking(contents) :
        PostContents(user, body, now)

GetContentsSome == \E user \in Callers, type \in SomeTypeParams : GetContents(user, type)

GetRecentContentsSome ==
    \E user \in Callers, limit \in SomeLimitParams : GetRecentContents(user, limit)

GetContentSome == \E user \in Callers, id \in SomeIdParams : GetContent(user, id)

GetContentAny == \E user \in Callers, id \in IdParams : GetContent(user, id)

\* saves of every type, two of which may fall within one tick of the clock
PostContentsTyped ==
    \E user \in Callers, body \in TypedSaveBodies, now \in defaultNow(contents) :
        PostContents(user, body, now)

GetContentsAny == \E user \in Callers, type \in TypeParams : GetContents(user, type)

GetRecentContentsAny ==
    \E user \in Callers, limit \in LimitParams : GetRecentContents(user, limit)

PatchProfileSome ==
    \E user \in Callers, body \in SomePatchBodies : PatchProfile(user, body)

PatchProfileAny == \E user \in Callers, body \in PatchBodies : PatchProfile(user, body)

PatchProfileEvery ==
    \E user \in Callers, body \in ProfileBodies : PatchProfile(user, body)

\* an upload without a file and one of an image within the size limit
SomeFileInputs ==
    {Undefined,
     [mimetype |-> <<"image", "png">>, size |-> fileSizeLimit,
      originalname |-> [stem |-> "me", ext |-> ".png"]]}

PostProfileImageSome ==
    \E user \in Callers, file \in SomeFileInputs : PostProfileImage(user, file)

\* the names a client gives its file
OriginalNames ==
    {[stem |-> "me", ext |-> ".png"], [stem |-> "you", ext |-> ".png"],
     [stem |-> "me", ext |-> ".html"]}

\* no file, and files of either kind, of sizes about the limit, under each name
EveryFile ==
    {Undefined}
    \cup {[mimetype |-> m, size |-> z, originalname |-> n] :
            m \in {<<"image", "png">>, <<"text", "plain">>},
            z \in {fileSizeLimit - 1, fileSizeLimit, fileSizeLimit + 1},
            n \in OriginalNames}

PostProfileImageEvery ==
    \E user \in Callers, file \in EveryFile : PostProfileImage(user, file)

PostProfileImageAny ==
    \E user \in Callers, file \in FileInputs : PostProfileImage(user, file)

\* the API service under requests to every route by every caller
Next ==
    \/ PostRegister
    \/ PostTransform
    \/ PostContentsSome
    \/ GetContentsSome
    \/ GetRecentContentsSome
    \/ GetContentSome
    \/ PatchProfileSome
    \/ PostProfileImageAny
    \/ Deliver

Spec == Init /\ [][Next]_vars

\* saving and fetching content under every shape of save and profile request
NextSave ==
    \/ PostRegister
    \/ PostContentsAny
    \/ GetContentAny
    \/ PatchProfileAny
    \/ Deliver

SpecSave == Init /\ [][NextSave]_vars

\* the transform endpoint under every shape of request body
NextTransform ==
    \/ PostRegister
    \/ PostTransformAny
    \/ Deliver

SpecTransform == Init /\ [][NextTransform]_vars

\* the history of each user under every shape of list request
NextRead ==
    \/ PostRegister
    \/ PostContentsTyped
    \/ GetContentsAny
    \/ GetRecentContentsAny
    \/ Deliver

SpecRead == Init /\ [][NextRead]_vars

\* the profiles under every shape of profile update and upload
NextProfile ==
    \/ PostRegister
    \/ PatchProfileEvery
    \/ PostProfileImageSome
    \/ Deliver

SpecProfile == Init /\ [][NextProfile]_vars

\* what the Templates form holds when it is submitted
TemplateFormValues ==
    {[title |-> t, templateType |-> y, content |-> templateExamples(y)] :
        t \in {"", "pl", "plan"}, y \in {"lesson-plan", "study-guide"}}

SubmitTemplate ==
    \E user \in Callers, data \in TemplateFormValues : saveTemplateMutation(user, data)

\* the Templates tool beside the saves and lists of the other tools
NextTemplates ==
    \/ PostRegister
    \/ SubmitTemplate
    \/ PostContentsSome
    \/ GetContentsAny
    \/ Deliver

SpecTemplates == Init /\ [][NextTemplates]_vars

PostTransformAwait ==
    \E user \in Callers, body \in TransformBodies : TransformAwait(user, body)

\* the handlers with the transform handler in its two steps; a call to the
\* provider that is made returns or throws in the end
NextAwait ==
    \/ PostRegister
    \/ PostTransformAwait
    \/ TransformResume
    \/ PostContentsSome
    \/ GetContentSome
    \/ Deliver

SpecAwait == Init /\ [][NextAwait]_vars /\ WF_vars(TransformResume)

\* the texts typed into a tool screen
ToolTexts == {<<" ">>, OriginalText}

TypeSome == \E t \in ToolTexts : setInputText(t)

\* the user signed in at the client: the one who registered first
SignedIn == {u \in ids(users) : \A v \in ids(users) : u <= v}

Mutate == \E user \in SignedIn : mutate(user)

SaveMutate ==
    \E user \in SignedIn, now \in defaultNowTicking(contents) : saveMutate(user, now)

SetActiveTool == \E tool \in Tools : setActiveTool(tool)

\* the tool screens of a signed-in user, over the API service
NextTools ==
    \/ PostRegister
    \/ DeliverToPage
    \/ TypeSome
    \/ Mutate
    \/ Serve
    \/ Settle
    \/ handleClear
    \/ SaveMutate
    \/ SetActiveTool

SpecTools == Init /\ [][NextTools]_vars

\* the ends of a slider of min 0, max 1 and step 0.1, in tenths: the
\* temperature is taken to the lower and topP to the upper one
SliderMin == 0
SliderMax == 10

\* texts typed into the top-k input: its lower bound, a number to either side
\* of its range, and no number
TopKTexts == {<<"0">>, <<"1">>, <<"1", "0", "1">>, <<"a">>}

\* texts typed into the max-tokens input: its upper bound, a number to either
\* side of its range, and the empty text
MaxTokensTexts ==
    {<<"4", "9">>, <<"8", "1", "9", "2">>, <<"8", "1", "9", "3">>, <<>>}

OpenChange == \E newOpen \in BOOLEAN : handleOpenChange(newOpen)

TemperatureChange == handleTemperatureChange(SliderMin)

TopPChange == handleTopPChange(SliderMax)

TopKChange == \E value \in TopKTexts : handleTopKChange(value)

MaxTokensChange == \E value \in MaxTokensTexts : handleMaxTokensChange(value)

TypeOriginal == setInputText(OriginalText)

\* the Expand tool of a signed-in user with its parameters dialog, over the
\* API service
NextDialog ==
    \/ PostRegister
    \/ DeliverToPage
    \/ TypeOriginal
    \/ OpenChange
    \/ TemperatureChange
    \/ TopPChange
    \/ TopKChange
    \/ MaxTokensChange
    \/ handleSave
    \/ handleReset
    \/ Mutate
    \/ Serve
    \/ Settle

SpecDialog == Init /\ [][NextDialog]_vars

\* the profile image under every shape of upload
NextUpload ==
    \/ PostRegister
    \/ PostProfileImageEvery
    \/ Deliver

SpecUpload == Init /\ [][NextUpload]_vars

\* the rows the history page lists are rows of the table, as fetched
ViewDetails == \E content \in contents : viewDetails(content)

AskDelete == \E content \in contents : askDelete(content)

\* neither dialog of the history page is open and no toast is shown
pageAtRest == selectedContent = Null /\ ~isDeleteDialogOpen /\ toast = Null

\* every route of the API service, asked with the history page at rest, and
\* the history page
NextHistory ==
    \/ pageAtRest /\ Next
    \/ ViewDetails
    \/ closeDetails
    \/ AskDelete
    \/ askDeleteOfDetails
    \/ cancelDelete
    \/ handleDeleteContent
    \/ dismissToast

SpecHistory == Init /\ [][NextHistory]_vars

TypeText == \E t \in TextsUpTo(MaxLen) : setInputText(t)

\* a tool screen's text area and the WordCounter under it
NextWords ==
    \/ TypeText
    \/ WordCounterEffect

SpecWords == Init /\ [][NextWords]_vars

----------------------------------------------------------------------------
(* The claims *)

TransformRoute == "POST /api/transform"
SaveRoute == "POST /api/contents"
FetchRoute == "GET /api/contents/:id"

\* a request has just been answered
Answered == last = Idle /\ last' # Idle

\* C1: whatever userId the body of a POST /api/contents carries (none, the
\* caller's, another user's, one of no user, a string), the row the request
\* inserts and returns carries the id of the authenticated caller.
C1_SavedUserIdIsCaller ==
    (last.route = SaveRoute /\ last.status = 201) =>
        /\ last.body \in contents
        /\ last.body.userId = last.user
        /\ isAuthenticated(last.user)

\* a save went through whose body named another existing user as the owner
C1_Witness ==
    /\ last.route = SaveRoute
    /\ last.status = 201
    /\ IsNumber(last.req.body.userId)
    /\ \E u \in users : u.id # last.user /\ last.req.body.userId = JsInt(u.id)

\* the row GET /api/contents/:id looks up for the parameter it was given
Fetched == getContent(parseInt(last.req.id).num \div Scale)

\* C2: a GET /api/contents/:id for a row that exists and belongs to another
\* user than the caller is answered 403 with the message alone, none of the
\* row's fields, whatever was saved before by whichever user.
C2_ForeignFetchForbidden ==
    (/\ last.route = FetchRoute
     /\ last.user # NoUser
     /\ ~isNaN(parseInt(last.req.id))
     /\ ~IsUndefined(Fetched)
     /\ Fetched.userId # last.user) =>
        /\ last.status = 403
        /\ last.body = Message("Forbidden")

\* a caller who owns a row asked for the row of another user
C2_Witness ==
    /\ last.route = FetchRoute
    /\ last.status = 403
    /\ \E c \in contents : c.userId = last.user
    /\ \E c \in contents : c.userId # last.user /\ parseInt(last.req.id) = JsInt(c.id)

\* C3: a POST /api/transform of an authenticated caller whose text is the
\* empty string is answered 400, and the provider is not called for it.
C3_EmptyTextRejected ==
    [][(/\ Answered
        /\ last'.route = TransformRoute
        /\ last'.user # NoUser
        /\ last'.req.body.text = Str(<<>>)) =>
            /\ last'.status = 400
            /\ providerCalls' = providerCalls]_vars

\* an empty text was refused in a request that is valid in every other field
C3_Witness ==
    /\ last.route = TransformRoute
    /\ last.user # NoUser
    /\ last.req.body.text = Str(<<>>)
    /\ last.req.body.contentType = Str("expand")
    /\ last.req.body.aiParameters = HighestAIParameters
    /\ last.status = 400
    /\ providerCalls = 0

\* C4: a POST /api/transform of an authenticated caller whose contentType is
\* none of expand, summarize, similar, template (another string, no string,
\* or absent) is answered 400 without a provider call, whatever the other
\* fields are.
C4_UnknownContentTypeRejected ==
    [][(/\ Answered
        /\ last'.route = TransformRoute
        /\ last'.user # NoUser
        /\ last'.req.body.contentType \notin
              {Str("expand"), Str("summarize"), Str("similar"), Str("template")}) =>
            /\ last'.status = 400
            /\ providerCalls' = providerCalls]_vars

\* a content type outside the enumeration was refused with a valid text
C4_Witness ==
    /\ last.route = TransformRoute
    /\ last.user # NoUser
    /\ last.req.body.text = Str(OriginalText)
    /\ last.req.body.contentType = Str("essay")
    /\ last.status = 400
    /\ providerCalls = 0

\* the boundary values of a generation parameter, and the values one unit
\* beyond them
AtBound(name) ==
    CASE name = "temperature" -> {JsInt(0), JsInt(1)}
      [] name = "topP" -> {JsInt(0), JsInt(1)}
      [] name = "topK" -> {JsInt(1), JsInt(100)}
      [] name = "maxOutputTokens" -> {JsInt(50), JsInt(8192)}

BeyondBound(name) ==
    CASE name = "temperature" -> {JsInt(0 - 1), JsInt(2)}
      [] name = "topP" -> {JsInt(0 - 1), JsInt(2)}
      [] name = "topK" -> {JsInt(0), JsInt(101)}
      [] name = "maxOutputTokens" -> {JsInt(49), JsInt(8193)}

\* a transform request that is valid but for its aiParameters object
ValidButForAIParameters(body) ==
    /\ body.text = Str(OriginalText)
    /\ body.contentType \in {Str("expand"), Str("summarize"), Str("similar"), Str("template")}
    /\ IsUndefined(body.tone)
    /\ IsUndefined(body.audience)
    /\ DOMAIN body.aiParameters = AIParameterNames

\* C5: aiParameters whose parameters are each left out or at a boundary value
\* are accepted, the request going on to the provider; aiParameters with a
\* parameter one unit beyond a bound are refused with 400 and no provider call.
C5_AIParameterBounds ==
    [][(/\ Answered
        /\ last'.route = TransformRoute
        /\ last'.user # NoUser
        /\ ValidButForAIParameters(last'.req.body)) =>
            LET p == last'.req.body.aiParameters
            IN  /\ (\A n \in AIParameterNames : p[n] \in AtBound(n) \cup {Undefined}) =>
                      /\ last'.status # 400
                      /\ providerCalls' = providerCalls + 1
                /\ (\E n \in AIParameterNames : p[n] \in BeyondBound(n)) =>
                      /\ last'.status = 400
                      /\ providerCalls' = providerCalls]_vars

\* every parameter at its upper bound was accepted and the provider answered
C5_Witness ==
    /\ last.route = TransformRoute
    /\ last.req.body.aiParameters = HighestAIParameters
    /\ last.status = 200
    /\ providerCalls = 1

\* the number of maximal runs of characters that are not white space
WordRuns(text) ==
    Cardinality({i \in 1..Len(text) :
                   ~IsSpace(text[i]) /\ (i = 1 \/ IsSpace(text[i - 1]))})

\* C6: for every text, the tools' countWords gives the number of maximal runs
\* of non-white-space characters (0 for an empty or all-white-space text), and
\* once its effect has run WordCounter shows that same number.
C6_WordCount ==
    /\ countWords(inputText) = WordRuns(inputText)
    /\ ~effectPending => wordCount = WordRuns(inputText)
    /\ ~effectPending => wordCount = countWords(inputText)

\* two words behind leading white space, counted by both
C6_Witness ==
    /\ ~effectPending
    /\ Len(inputText) = MaxLen
    /\ IsSpace(inputText[1])
    /\ WordRuns(inputText) = 2
    /\ wordCount = 2

ProtectedRoutes ==
    {"POST /api/transform", "POST /api/contents", "GET /api/contents",
     "GET /api/contents/recent", "GET /api/contents/:id", "PATCH /api/profile",
     "POST /api/profile/image"}

\* C7: a request without an authenticated session to any of the protected
\* routes is answered 401 and calls no provider, inserts no row, updates no
\* user and stores no upload.
C7_UnauthenticatedRefused ==
    [][(/\ Answered
        /\ last'.route \in ProtectedRoutes
        /\ last'.user = NoUser) =>
            /\ last'.status = 401
            /\ UNCHANGED <<users, nextUserId, contents, nextContentId,
                           providerCalls, uploads, nextUuid>>]_vars

\* an image within the limits was uploaded without a session and refused
C7_Witness ==
    /\ last.route = "POST /api/profile/image"
    /\ last.user = NoUser
    /\ ~IsUndefined(last.req.file)
    /\ fileFilter(last.req.file)
    /\ last.req.file.size <= fileSizeLimit
    /\ last.status = 401
    /\ users # {}

\* C8: every content row's userId is the id of exactly one user row, and the
\* userId of a row never changes (nor does the row go away), whatever is
\* registered, patched or saved.
C8_ContentHasOneOwner ==
    /\ [](\A c \in contents : Cardinality({u \in users : u.id = c.userId}) = 1)
    /\ [][\A c \in contents :
            \E d \in contents' : d.id = c.id /\ d.userId = c.userId]_vars

\* a user who owns a row asked for a free id in a profile update and was
\* refused
C8_Witness ==
    /\ last.route = "PATCH /api/profile"
    /\ "id" \in DOMAIN last.req.body
    /\ last.req.body.id # JsInt(last.user)
    /\ last.req.body.id \notin {JsInt(u.id) : u \in users}
    /\ \E c \in contents : c.userId = last.user
    /\ last.status = 500

\* C9: the word counts stored with a row are non-negative and are the word
\* counts of the texts stored with it.
C9_StoredWordCounts ==
    \A c \in contents :
        /\ c.originalWordCount >= 0
        /\ c.transformedWordCount >= 0
        /\ c.originalWordCount = WordRuns(c.originalContent)
        /\ c.transformedWordCount = WordRuns(c.transformedContent)

\* C10: every stored row has a contentType of the enumeration, and a save
\* with any other contentType is refused and inserts nothing.
C10_StoredContentTypes ==
    /\ \A c \in contents :
          c.contentType \in {"expand", "summarize", "similar", "template"}
    /\ (/\ last.route = SaveRoute
        /\ last.user # NoUser
        /\ last.req.body.contentType \notin
              {Str("expand"), Str("summarize"), Str("similar"), Str("template")}) =>
          last.status = 400

ListRoute == "GET /api/contents"
RecentRoute == "GET /api/contents/recent"

\* the rows of a list response, and the rows a user owns
RowSet(rows) == {rows[i] : i \in 1..Len(rows)}
RowsOf(user) == {c \in contents : c.userId = user}

\* a list response that carries each row of the set once and no other row
ExactlyRows(body, rows) ==
    /\ RowSet(body.rows) = rows
    /\ Len(body.rows) = Cardinality(rows)

C12_EveryTypeListed ==
    (last.route = ListRoute /\ last.user # NoUser /\ IsString(last.req.type)) =>
        /\ last.req.type.str \in {"expand", "summarize", "similar", "template"} =>
              /\ last.status = 200
              /\ ExactlyRows(last.body, {c \in RowsOf(last.user) :
                                         c.contentType = last.req.type.str})
        /\ last.status = 400 =>
              last.req.type.str \notin {"expand", "summarize", "similar", "template"}

\* the limit a GET /api/contents/recent asks for: the number its parameter
\* reads as, 10 without a parameter
AskedLimit ==
    IF truthyText(last.req.limit) THEN parseInt(last.req.limit.str) ELSE JsInt(10)

\* C13: the rows a GET /api/contents/recent returns to an authenticated caller
\* are rows of the caller, each once, in descending order of createdAt, at
\* most N of them (none for an N below 0), N being the number the limit
\* parameter reads as or 10 without one, and they are the N newest: as many as N and the caller's rows
\* allow, none older than a row left out.
C13_RecentAreNewest ==
    (/\ last.route = RecentRoute
     /\ last.user # NoUser
     /\ last.status = 200
     /\ ~isNaN(AskedLimit)) =>
        LET n == AskedLimit.num \div Scale
            mine == RowsOf(last.user)
            rows == last.body.rows
        IN  /\ RowSet(rows) \subseteq mine
            /\ Len(rows) = Cardinality(RowSet(rows))
            /\ \A i, j \in 1..Len(rows) : i < j => rows[i].createdAt >= rows[j].createdAt
            /\ Len(rows) <= (IF n < 0 THEN 0 ELSE n)
            /\ n >= 0 => Len(rows) = (IF n < Cardinality(mine) THEN n ELSE Cardinality(mine))
            /\ \A c \in mine \ RowSet(rows) :
                  \A i \in 1..Len(rows) : rows[i].createdAt >= c.createdAt

\* C14: no step of the API service (transform, save, list, fetch, profile
\* update, image upload, registration) and no step of the history page, its
\* delete confirmation included, changes or removes a content row; and a
\* fetch of a row by its owner is answered 200 with the row as it is stored.
C14_ContentImmutable ==
    /\ [][\A c \in contents : c \in contents']_vars
    /\ [](/\ last.route = FetchRoute
          /\ last.user # NoUser
          /\ ~isNaN(parseInt(last.req.id))
          /\ ~IsUndefined(Fetched)
          /\ Fetched.userId = last.user
          => /\ last.status = 200
             /\ last.body \in contents
             /\ last.body = Fetched)

\* the deletion of a row was confirmed on the history page, which says
\* "Content deleted", and the row is in the table as it was
C14_Witness ==
    /\ toast = Str("Content deleted")
    /\ ~isDeleteDialogOpen
    /\ selectedContent # Null
    /\ selectedContent \in contents
    /\ getContent(selectedContent.id) = selectedContent

\* C15: a POST /api/transform, whatever it is answered (200, 400, 500, or 401
\* without a session), leaves the tables users and contents, their sequences
\* and the uploads as they were; and the table contents changes only by a
\* POST /api/contents answered 201, which adds one row.
C15_TransformPersistsNothing ==
    [][/\ (Answered /\ last'.route = TransformRoute) =>
             /\ last'.status \in {200, 400, 401, 500}
             /\ UNCHANGED <<users, nextUserId, contents, nextContentId, uploads, nextUuid>>
       /\ contents' # contents =>
             /\ Answered
             /\ last'.route = SaveRoute
             /\ last'.status = 201
             /\ contents' = contents \cup {last'.body}]_vars

\* a transform was answered 200 to a user who has saved a row before, and no
\* row holds the text the provider gave
C15_Witness ==
    /\ last.route = TransformRoute
    /\ last.status = 200
    /\ \E c \in contents : c.userId = last.user
    /\ \A c \in contents : c.transformedContent # last.body.transformedContent

\* a save body that lacks a required field or carries one of the wrong type
LacksRequired(body) ==
    \/ \E f \in {"title", "originalContent", "transformedContent", "contentType"} :
          DOMAIN body[f] # {"str"}
    \/ \E f \in {"originalWordCount", "transformedWordCount"} :
          DOMAIN body[f] # {"num"}

\* a save body with every required field of its type, the counts whole
\* numbers, and metadata a string, null or left out
WellFormed(body) ==
    /\ ~LacksRequired(body)
    /\ \A f \in {"originalWordCount", "transformedWordCount"} : body[f].num % Scale = 0
    /\ DOMAIN body.metadata \in {{"str"}, {"null"}, {"undef"}}

\* C16: a POST /api/contents of an authenticated caller whose body lacks one
\* of title, originalContent, transformedContent, contentType,
\* originalWordCount, transformedWordCount, or has it of the wrong type, is
\* answered 400 and the table is as before; one with a well-formed body is
\* answered 201 and the table has one row more, the row of the answer.
C16_SaveValidated ==
    [][(/\ Answered
        /\ last'.route = SaveRoute
        /\ last'.user # NoUser) =>
            /\ LacksRequired(last'.req.body) =>
                  /\ last'.status = 400
                  /\ contents' = contents
            /\ WellFormed(last'.req.body) =>
                  /\ last'.status = 201
                  /\ last'.body \notin contents
                  /\ contents' = contents \cup {last'.body}]_vars

\* after a save that went through, one without a title was refused
C16_Witness ==
    /\ last.route = SaveRoute
    /\ last.user # NoUser
    /\ IsUndefined(last.req.body.title)
    /\ last.status = 400
    /\ Cardinality(contents) = 1

\* C17: a GET /api/contents/:id of an authenticated caller for an id that
\* reads as a number is answered 404 when no row has that id, whoever asks;
\* 200, with the row of that id, exactly when the row exists and the caller
\* owns it; and 403 only when a row of that id exists.
C17_FetchStatus ==
    (/\ last.route = FetchRoute
     /\ last.user # NoUser
     /\ ~isNaN(parseInt(last.req.id))) =>
        LET id == parseInt(last.req.id).num \div Scale
            found == {c \in contents : c.id = id}
        IN  /\ found = {} => last.status = 404
            /\ last.status = 200 <=> \E c \in found : c.userId = last.user
            /\ last.status = 200 => last.body \in found
            /\ last.status = 403 => found # {}

\* a user who owns a row asked for an id the sequence has not reached
C17_Witness ==
    /\ last.route = FetchRoute
    /\ last.status = 404
    /\ \E c \in contents : c.userId = last.user
    /\ \A c \in contents : JsInt(c.id) # parseInt(last.req.id)

PatchRoute == "PATCH /api/profile"
ImageRoute == "POST /api/profile/image"

\* C18: whatever a PATCH /api/profile or POST /api/profile/image carries, a
\* password included, no user's stored password changes by it: every user row
\* is as it was or stands for a row of the same password.
C18_PasswordKept ==
    [][(Answered /\ last'.route \in {PatchRoute, ImageRoute}) =>
          /\ Cardinality(users') = Cardinality(users)
          /\ \A v \in users' \ users :
                \E u \in users \ users' : u.password = v.password]_vars

\* a profile update that named a password along with a name was answered 200,
\* the name is stored and the password is not
C18_Witness ==
    /\ last.route = PatchRoute
    /\ last.status = 200
    /\ "password" \in DOMAIN last.req.body
    /\ last.body.fullName = last.req.body.fullName
    /\ last.body.password # last.req.body.password
    /\ last.body \in users

\* C19: a PATCH /api/profile changes nothing but the fullName, email, username
\* and theme of the caller's row: whatever the body, the caller's row keeps
\* its id, createdAt, password and profileImage, and no other row changes.
C19_PatchFrame ==
    [][(Answered /\ last'.route = PatchRoute /\ last'.user # NoUser) =>
          \A u \in users :
              IF u.id = last'.user
              THEN \E v \in users' :
                      /\ v.id = u.id
                      /\ v.createdAt = u.createdAt
                      /\ v.password = u.password
                      /\ v.profileImage = u.profileImage
              ELSE u \in users']_vars

\* C20: no two user rows share a username and no two share an email; and a
\* PATCH /api/profile that names the username or the email of another user
\* is answered with an error status and leaves the table users as it was.
C20_UniqueNames ==
    /\ [](\A u, v \in users :
            u # v => u.username # v.username /\ u.email # v.email)
    /\ [][(/\ Answered
            /\ last'.route = PatchRoute
            /\ last'.user # NoUser
            /\ \E u \in users :
                  /\ u.id # last'.user
                  /\ \/ /\ "username" \in DOMAIN last'.req.body
                        /\ last'.req.body.username = u.username
                     \/ /\ "email" \in DOMAIN last'.req.body
                        /\ last'.req.body.email = u.email) =>
              /\ last'.status >= 400
              /\ users' = users]_vars

\* a user asked for the username another user has taken by a profile update,
\* and was refused
C20_Witness ==
    /\ last.route = PatchRoute
    /\ last.user # NoUser
    /\ "username" \in DOMAIN last.req.body
    /\ last.req.body.username = Str(MaxUsers + 1)
    /\ \E u \in users : u.id # last.user /\ u.username = Str(MaxUsers + 1)
    /\ last.status = 500

\* the row a user has in a table of users
RowOf(rows, user) == CHOOSE u \in rows : u.id = user

\* C21: a POST /api/profile/image of an authenticated caller stores a file and
\* sets the caller's profileImage only for a file whose MIME type starts with
\* image/ and whose size is at most 5 MB; with any other file, or with none,
\* nothing is stored and no user row changes; and a 200 goes with a stored
\* file that is the caller's profileImage.
C21_UploadConstraints ==
    [][(Answered /\ last'.route = ImageRoute /\ last'.user # NoUser) =>
          LET file == last'.req.file
              allowed == /\ ~IsUndefined(file)
                         /\ file.mimetype[1] = "image"
                         /\ file.size <= 5 * 1024 * 1024
          IN  /\ (uploads' # uploads \/ users' # users) => allowed
              /\ ~allowed =>
                    /\ last'.status >= 400
                    /\ RowOf(users', last'.user).profileImage
                          = RowOf(users, last'.user).profileImage
              /\ last'.status = 200 =>
                    /\ allowed
                    /\ last'.body.imageUrl.str \in uploads' \ uploads
                    /\ RowOf(users', last'.user).profileImage = last'.body.imageUrl]_vars

\* an image one byte past the limit was refused and the caller has no image
C21_Witness ==
    /\ last.route = ImageRoute
    /\ last.user # NoUser
    /\ ~IsUndefined(last.req.file)
    /\ last.req.file.mimetype[1] = "image"
    /\ last.req.file.size = 5 * 1024 * 1024 + 1
    /\ last.status = 500
    /\ uploads = {}
    /\ RowOf(users, last.user).profileImage = Null

\* C22: the name an uploaded profile image is stored under is independent of
\* the file's original name: the same upload under any other original name
\* would have been stored under the same name.
C22_NameIndependent ==
    (/\ last.route = ImageRoute
     /\ last.status = 200) =>
        \A name \in OriginalNames :
            filename(last.body.imageUrl.str.uuid,
                     [last.req.file EXCEPT !.originalname = name])
                = last.body.imageUrl.str

\* C23: a POST /api/transform calls the provider at most once; a request
\* answered 500 made its one call, and its response is the message alone,
\* without the transformed text and without the word counts; and the provider
\* is called by no step other than the one that handles a transform request.
C23_OneProviderCall ==
    [][/\ (Answered /\ last'.route = TransformRoute) =>
             /\ providerCalls' \in {providerCalls, providerCalls + 1}
             /\ last'.status = 500 =>
                   /\ providerCalls' = providerCalls + 1
                   /\ DOMAIN last'.body = {"message"}
       /\ providerCalls' # providerCalls =>
             /\ Answered
             /\ last'.route = TransformRoute]_vars

\* the provider failed on a well-formed request, which was answered 500
C23_Witness ==
    /\ last.route = TransformRoute
    /\ last.user # NoUser
    /\ contentValidationSchema(last.req.body)
    /\ last.status = 500
    /\ providerCalls = 1

TemplateRoute == "POST /api/content"

\* C24: once the Templates form was submitted with valid values by a signed-in
\* user and the request was answered, the table contents holds a row of
\* contentType template of that user with the title of the form.
C24_TemplateSaved ==
    (/\ last.route = TemplateRoute
     /\ last.user # NoUser) =>
        \E c \in contents :
            /\ c.userId = last.user
            /\ c.contentType = "template"
            /\ Str(c.title) = last.req.body.title

C26_OthersUntouched ==
    [][(/\ Answered
        /\ last'.route \in {PatchRoute, ImageRoute}
        /\ last'.user # NoUser) =>
            /\ \A u \in users : u.id # last'.user => u \in users'
            /\ Cardinality(users') = Cardinality(users)]_vars

\* a caller's update carried the id of another user, who has a row, and was
\* refused
C26_Witness ==
    /\ last.route = PatchRoute
    /\ last.user # NoUser
    /\ "id" \in DOMAIN last.req.body
    /\ \E u \in users : u.id # last.user /\ last.req.body.id = JsInt(u.id)
    /\ \E u \in users : u.id = last.user
    /\ last.status = 500

\* C27: a save of a tool that is answered 201 stores as originalContent the
\* text of the transform request whose response is the output shown, which it
\* stores as transformedContent.
C27_SavedPairMatches ==
    [][(Answered /\ last'.route = SaveRoute /\ last'.status = 201) =>
          /\ last'.body.transformedContent = outputText
          /\ last'.body.originalContent = generatedFrom]_vars

\* C28: from a press on Clear until a transform is started, the output and
\* the title of the tool are empty.
C28_ClearedStaysEmpty ==
    cleared => (outputText = <<>> /\ title = <<>>)

\* C30: no transform request in flight carries a text that trims to nothing,
\* no save request carried a transformed text that trims to nothing, and no
\* tool has two transform requests in flight.
C30_ToolRequests ==
    /\ \A r \in inFlight : trim(r.body.text.str) # <<>>
    /\ (last.route = SaveRoute /\ last.user # NoUser) =>
          trim(last.req.body.transformedContent.str) # <<>>
    /\ \A tool \in Tools : Cardinality({r \in inFlight : r.tool = tool}) <= 1

\* every parameter is a number within the range the schema gives it
InRanges(p) ==
    /\ DOMAIN p = AIParameterNames
    /\ \A n \in AIParameterNames : IsNumber(p[n])
    /\ p.temperature.num >= 0 /\ p.temperature.num <= 1 * Scale
    /\ p.topP.num >= 0 /\ p.topP.num <= 1 * Scale
    /\ p.topK.num >= 1 * Scale /\ p.topK.num <= 100 * Scale
    /\ p.maxOutputTokens.num >= 50 * Scale /\ p.maxOutputTokens.num <= 8192 * Scale

\* C29: whatever was done in the parameters dialog, the aiParameters the
\* Expand tool holds, and those of every transform request it has in flight,
\* are within the ranges of the schema; the body of such a request passes the
\* validation of the server, and its answer is not 400.
C29_ParametersInRange ==
    /\ InRanges(aiParameters)
    /\ \A r \in inFlight :
          r.tool = "expand" =>
             /\ InRanges(r.body.aiParameters)
             /\ contentValidationSchema(r.body)
    /\ (last.route = TransformRoute /\ last.user # NoUser) => last.status # 400

\* a request went out after every parameter was saved at a bound of its
\* range, and was answered 200
C29_Witness ==
    /\ last.route = TransformRoute
    /\ last.status = 200
    /\ last.req.body.aiParameters.temperature = Num(0)
    /\ last.req.body.aiParameters.topP = Num(10)
    /\ last.req.body.aiParameters.topK = JsInt(1)
    /\ last.req.body.aiParameters.maxOutputTokens = JsInt(8192)
    /\ aiParameters = last.req.body.aiParameters

====
